---- MODULE Spec2Model ----
(***************************************************************************)
(* AdaptiveLearn360: content prioritisation, session grouping, sequencing, *)
(* study-mix generation and adaptive scheduling.                           *)
(*                                                                         *)
(* Times are integers counting hours since an epoch; one day is 24 hours.  *)
(* Item objects live in `heap` (index = object identity); arrays are       *)
(* sequences of references into it, so that in-place mutation of items is  *)
(* visible through every array that holds them.                            *)
(***************************************************************************)
EXTENDS Integers, Sequences, FiniteSets, TLC

VARIABLES
    now,           \* the wall clock read by `new Date()`
    heap,          \* the content item objects
    contentItems,  \* the array argument: [defined, refs]
    userData,      \* the userData / performance argument
    opts,          \* the remaining arguments of the call and the JS engine's sort
    result,        \* what the last call returned: [status, value, at]
    last,          \* what the call before it returned (history)
    call           \* name of the last function called

vars == <<now, heap, contentItems, userData, opts, result, last, call>>

----------------------------------------------------------------------------
(* Bounds of the model *)

MaxItems == 3          \* longest content list of the prioritiser runs
MaxNow == 2            \* how many times the clock may advance
MaxGroupItems == 4     \* longest item list of the session grouper runs
MaxSeqItems == 3       \* longest item list of the dependency-ordering runs
MaxInterleaveItems == 4 \* longest item list of the interleaving runs
MaxPerSubject == 5     \* most items of one subject in the study-mix runs
MaxSchedItems == 3     \* longest content list of the scheduler runs
MaxDays == 3           \* largest explicit daysToSchedule
MaxSessions == 3       \* longest schedule of the feedback-adjustment runs

----------------------------------------------------------------------------
(* JavaScript values *)

Undefined == -1
HoursPerDay == 24

\* the clock value the runs start at
StartNow == 2 * HoursPerDay

\* a numeric field used as a condition: undefined, null and 0 are falsy
Truthy(x) == x # Undefined /\ x # 0

\* x || d
OrDefault(x, d) == IF Truthy(x) THEN x ELSE d

Max(a, b) == IF a >= b THEN a ELSE b
Min(a, b) == IF a <= b THEN a ELSE b

Range(s) == {s[i] : i \in DOMAIN s}

RECURSIVE SumSeq(_)
SumSeq(s) == IF s = <<>> THEN 0 ELSE Head(s) + SumSeq(Tail(s))

\* nothing returned yet; `at` is the clock value at the time of the call
NoResult == [status |-> "none", value |-> <<>>, at |-> 0]

NoLast == [result |-> NoResult, heap |-> <<>>]

----------------------------------------------------------------------------
(* Array.prototype.sort.  The comparator is named by `kind`; Compare gives  *)
(* its return value.  Two engines: V8's TimSort (run detection followed by  *)
(* binary insertion, the path taken by arrays shorter than 64) and a        *)
(* top-down merge sort.                                                     *)

\* a comparator that sorts ascending
CompareScoreAscending(h, a, b) == h[a].priorityScore - h[b].priorityScore

\* prioritizeContent: (a, b) => b.priorityScore - a.priorityScore
CompareScore(h, a, b) == h[b].priorityScore - h[a].priorityScore

\* recommendContentSequence: dependencies first, then ascending difficulty
CompareSequence(h, a, b) ==
    IF h[b].id \in h[a].dependsOn THEN 1
    ELSE IF h[a].id \in h[b].dependsOn THEN -1
    ELSE h[a].difficulty - h[b].difficulty

\* generateAdaptiveSchedule: weak areas first, then descending difficulty
CompareSchedule(h, weak, a, b) ==
    LET aIsWeak == h[a].subject \in weak
        bIsWeak == h[b].subject \in weak
    IN  IF aIsWeak /\ ~bIsWeak THEN -1
        ELSE IF ~aIsWeak /\ bIsWeak THEN 1
        ELSE h[b].difficulty - h[a].difficulty

Compare(kind, h, weak, a, b) ==
    CASE kind = "score"    -> CompareScore(h, a, b)
      [] kind = "sequence" -> CompareSequence(h, a, b)
      [] kind = "schedule" -> CompareSchedule(h, weak, a, b)

Reverse(s) == [i \in 1..Len(s) |-> s[Len(s) + 1 - i]]

\* length of the initial run of s (CountAndMakeRun), s has >= 2 elements
RECURSIVE RunEnd(_, _, _, _, _, _)
RunEnd(kind, h, weak, s, desc, i) ==
    IF i > Len(s) THEN Len(s)
    ELSE LET order == Compare(kind, h, weak, s[i], s[i-1])
         IN  IF (desc /\ order >= 0) \/ (~desc /\ order < 0)
             THEN i - 1
             ELSE RunEnd(kind, h, weak, s, desc, i + 1)

\* binary search of the insertion point of pivot in s[left+1 .. right]
RECURSIVE BinarySearch(_, _, _, _, _, _, _)
BinarySearch(kind, h, weak, s, pivot, left, right) ==
    IF left >= right THEN left
    ELSE LET mid == left + ((right - left) \div 2)
             order == Compare(kind, h, weak, pivot, s[mid + 1])
         IN  IF order < 0
             THEN BinarySearch(kind, h, weak, s, pivot, left, mid)
             ELSE BinarySearch(kind, h, weak, s, pivot, mid + 1, right)

\* s[1..start-1] is the sorted prefix; insert s[start], s[start+1], ...
RECURSIVE BinaryInsertionSort(_, _, _, _, _)
BinaryInsertionSort(kind, h, weak, s, start) ==
    IF start > Len(s) THEN s
    ELSE LET pivot == s[start]
             left == BinarySearch(kind, h, weak, s, pivot, 0, start - 1)
             moved == SubSeq(s, 1, left) \o <<pivot>> \o SubSeq(s, left + 1, start - 1)
                      \o SubSeq(s, start + 1, Len(s))
         IN  BinaryInsertionSort(kind, h, weak, moved, start + 1)

TimSort(kind, h, weak, s) ==
    IF Len(s) < 2 THEN s
    ELSE LET desc == Compare(kind, h, weak, s[2], s[1]) < 0
             run == RunEnd(kind, h, weak, s, desc, 3)
             made == IF desc THEN Reverse(SubSeq(s, 1, run)) \o SubSeq(s, run + 1, Len(s))
                     ELSE s
         IN  BinaryInsertionSort(kind, h, weak, made, run + 1)

RECURSIVE Merge(_, _, _, _, _)
Merge(kind, h, weak, l, r) ==
    IF l = <<>> THEN r
    ELSE IF r = <<>> THEN l
    ELSE IF Compare(kind, h, weak, l[1], r[1]) <= 0
         THEN <<l[1]>> \o Merge(kind, h, weak, Tail(l), r)
         ELSE <<r[1]>> \o Merge(kind, h, weak, l, Tail(r))

RECURSIVE MergeSort(_, _, _, _)
MergeSort(kind, h, weak, s) ==
    IF Len(s) < 2 THEN s
    ELSE LET mid == Len(s) \div 2
         IN  Merge(kind, h, weak,
                   MergeSort(kind, h, weak, SubSeq(s, 1, mid)),
                   MergeSort(kind, h, weak, SubSeq(s, mid + 1, Len(s))))

Engines == {"timsort", "mergesort"}

ArraySort(engine, kind, h, weak, s) ==
    IF engine = "timsort" THEN TimSort(kind, h, weak, s)
    ELSE MergeSort(kind, h, weak, s)

----------------------------------------------------------------------------
(* prioritizeContent *)

WeakAreasOf(ud) ==
    IF ud.performance.defined THEN ud.performance.weakAreas ELSE {}

StrongAreasOf(ud) ==
    IF ud.performance.defined THEN ud.performance.strongAreas ELSE {}

\* a difficulty factor without the lower limit
DifficultyFactorUnclamped(item) == Min(2, item.difficulty - 3)

\* Factor 3: Math.min(2, Math.max(0, item.difficulty - 3))
DifficultyFactor(item) == Min(2, Max(0, item.difficulty - 3))

\* the thresholds taken inclusive
UrgencyFactorInclusive(item, t) ==
    IF ~Truthy(item.dueDate) THEN 0
    ELSE LET hoursUntilDue == Max(0, item.dueDate - t)
         IN  IF hoursUntilDue <= 1 * HoursPerDay THEN 3
             ELSE IF hoursUntilDue <= 3 * HoursPerDay THEN 2
             ELSE IF hoursUntilDue <= 7 * HoursPerDay THEN 1
             ELSE 0

\* Factor 4: deadline proximity; daysUntilDue = max(0, (due - now) / day)
UrgencyFactor(item, t) ==
    IF ~Truthy(item.dueDate) THEN 0
    ELSE LET hoursUntilDue == Max(0, item.dueDate - t)
         IN  IF hoursUntilDue < 1 * HoursPerDay THEN 3
             ELSE IF hoursUntilDue < 3 * HoursPerDay THEN 2
             ELSE IF hoursUntilDue < 7 * HoursPerDay THEN 1
             ELSE 0

\* a score that starts from the score the item already carries
PriorityScoreAccumulating(item, weakAreas, strongAreas, t) ==
    OrDefault(item.priorityScore, 5)
    + (IF item.subject \in weakAreas THEN 3 ELSE 0)
    - (IF item.subject \in strongAreas THEN 2 ELSE 0)
    + DifficultyFactor(item)
    + UrgencyFactor(item, t)
    + (IF item.previouslyStruggled THEN 2 ELSE 0)
    + (IF ~Truthy(item.lastStudied) THEN 1 ELSE 0)

PriorityScore(item, weakAreas, strongAreas, t) ==
    5
    + (IF item.subject \in weakAreas THEN 3 ELSE 0)
    - (IF item.subject \in strongAreas THEN 2 ELSE 0)
    + DifficultyFactor(item)
    + UrgencyFactor(item, t)
    + (IF item.previouslyStruggled THEN 2 ELSE 0)
    + (IF ~Truthy(item.lastStudied) THEN 1 ELSE 0)

PriorityLevel(score) ==
    IF score >= 10 THEN "critical"
    ELSE IF score >= 8 THEN "high"
    ELSE IF score >= 5 THEN "medium"
    ELSE IF score >= 3 THEN "low"
    ELSE "optional"

\* the forEach: every item of the array gets priorityScore and priority
ScoreItems(h, refs, ud, t) ==
    [r \in DOMAIN h |->
        IF r \in Range(refs)
        THEN LET s == PriorityScore(h[r], WeakAreasOf(ud), StrongAreasOf(ud), t)
             IN  [h[r] EXCEPT !.priorityScore = s, !.priority = PriorityLevel(s)]
        ELSE h[r]]

\* one call prioritizeContent(array, userData): the new heap and the result
DoPrioritize(array) ==
    IF ~array.defined \/ Len(array.refs) = 0 \/ ~userData.defined
    THEN /\ result' = [status |-> "ok", value |-> <<>>, at |-> now]
         /\ heap' = heap
    ELSE LET scored == ScoreItems(heap, array.refs, userData, now)
         IN  /\ heap' = scored
             /\ result' = [status |-> "ok",
                           value |-> ArraySort(opts.engine, "score", scored, {}, array.refs),
                           at |-> now]

\* the caller prioritises its content list
PrioritizeContent ==
    /\ call = "none"
    /\ DoPrioritize(contentItems)
    /\ last' = [result |-> result, heap |-> heap]
    /\ call' = "prioritizeContent"
    /\ UNCHANGED <<now, contentItems, userData, opts>>

\* the caller prioritises the array a previous call returned
PrioritizeOutput ==
    /\ call = "prioritizeContent"
    /\ DoPrioritize([defined |-> TRUE, refs |-> result.value])
    /\ last' = [result |-> result, heap |-> heap]
    /\ call' = "prioritizeOutput"
    /\ UNCHANGED <<now, contentItems, userData, opts>>

\* time passes between calls
Tick ==
    /\ now < StartNow + MaxNow * HoursPerDay
    /\ now' = now + HoursPerDay
    /\ UNCHANGED <<heap, contentItems, userData, opts, result, last, call>>

----------------------------------------------------------------------------
(* Inputs of the prioritiser runs *)

NewItem(id, subject, difficulty) ==
    [id |-> id, subject |-> subject, difficulty |-> difficulty,
     dueDate |-> Undefined, estimatedDuration |-> Undefined,
     previouslyStruggled |-> FALSE, lastStudied |-> Undefined,
     dependsOn |-> {}, priorityScore |-> Undefined, priority |-> "none"]

Performance(avg, weak, strong) ==
    [defined |-> TRUE, averageScore |-> avg, weakAreas |-> weak, strongAreas |-> strong]

NoPerformance ==
    [defined |-> FALSE, averageScore |-> Undefined, weakAreas |-> {}, strongAreas |-> {}]

NoHabits == [defined |-> FALSE, preferredStudyTime |-> <<>>, consistencyScore |-> Undefined]

NoPreferences == [defined |-> FALSE, studyDuration |-> Undefined, breakDuration |-> Undefined]

UserData(perf) ==
    [defined |-> TRUE, performance |-> perf, habits |-> NoHabits, preferences |-> NoPreferences]

NoUserData ==
    [defined |-> FALSE, performance |-> NoPerformance, habits |-> NoHabits,
     preferences |-> NoPreferences]

\* the mock user has weak areas and strong areas; a subject may be in both
PrioUserDatas ==
    { UserData(Performance(75, {"calculus"}, {"physics"})),
      UserData(Performance(75, {"calculus", "physics"}, {"physics"})),
      UserData(NoPerformance) }

\* due dates around each urgency threshold: overdue, now, <1 day, 1 day,
\* <3 days, 3 days, <7 days, 7 days
DueDates == {Undefined, 24, 48, 71, 72, 119, 120, 215, 216}

AllProfiles ==
    { [NewItem(1, s, d) EXCEPT !.dueDate = due, !.previouslyStruggled = ps,
                               !.lastStudied = ls] :
        s \in {"calculus", "physics", "history"}, d \in 1..5, due \in DueDates,
        ps \in BOOLEAN, ls \in {Undefined, 24} }

SmallProfiles ==
    { [NewItem(1, s, d) EXCEPT !.dueDate = due] :
        s \in {"calculus", "physics"}, d \in {3, 5}, due \in {Undefined, 84} }

\* every array of n objects drawn from pool, object i carrying id i
Heaps(pool, n) ==
    { [i \in 1..n |-> [f[i] EXCEPT !.id = i]] : f \in [1..n -> pool] }

Iota(n) == [i \in 1..n |-> i]

Array(refs) == [defined |-> TRUE, refs |-> refs]

NoOpts == [engine |-> "timsort"]

InitPrioritize(pool, lens) ==
    /\ now = StartNow
    /\ \E n \in lens : /\ heap \in Heaps(pool, n)
                      /\ contentItems = Array(Iota(n))
    /\ userData \in PrioUserDatas
    /\ opts \in [engine : Engines]
    /\ result = NoResult
    /\ last = NoLast
    /\ call = "none"

NextPrioritize == PrioritizeContent \/ PrioritizeOutput \/ Tick

\* one item of every profile
InitScore == InitPrioritize(AllProfiles, {1})
SpecScore == InitScore /\ [][NextPrioritize]_vars

\* lists of up to MaxItems items
InitPrio == InitPrioritize(SmallProfiles, 1..MaxItems)
SpecPrio == InitPrio /\ [][NextPrioritize]_vars

----------------------------------------------------------------------------
(* Properties of prioritizeContent *)

\* the array the last call of prioritizeContent was given
PrioritizeInput ==
    IF call = "prioritizeOutput" THEN last.result.value ELSE contentItems.refs

IndexOf(s, x) == CHOOSE i \in DOMAIN s : s[i] = x

Indicator(b) == IF b THEN 1 ELSE 0

Clamp(x, lo, hi) == IF x < lo THEN lo ELSE IF x > hi THEN hi ELSE x

\* urgency as the specification words it, from the signed time to the deadline
SpecUrgency(due, t) ==
    IF due = Undefined THEN 0
    ELSE IF due - t < HoursPerDay THEN 3
    ELSE IF due - t < 3 * HoursPerDay THEN 2
    ELSE IF due - t < 7 * HoursPerDay THEN 1
    ELSE 0

SpecScoreOf(item, t) ==
    5 + 3 * Indicator(item.subject \in WeakAreasOf(userData))
      - 2 * Indicator(item.subject \in StrongAreasOf(userData))
      + Clamp(item.difficulty - 3, 0, 2)
      + SpecUrgency(item.dueDate, t)
      + 2 * Indicator(item.previouslyStruggled)
      + Indicator(item.lastStudied = Undefined)

SpecTierOf(score) ==
    CASE score >= 10 -> "critical"
      [] score < 10 /\ score >= 8 -> "high"
      [] score < 8 /\ score >= 5 -> "medium"
      [] score < 5 /\ score >= 3 -> "low"
      [] score < 3 -> "optional"

\* C4: with the clock fixed during the call, every item gets priorityScore =
\* 5 + 3[weak] - 2[strong] + clamp(difficulty-3,0,2) + urgency + 2[struggled]
\* + 1[never studied], and the tier of that score (>=10 critical, >=8 high,
\* >=5 medium, >=3 low, else optional).
C4_ScoreFormula ==
    call # "none" =>
        \A i \in DOMAIN result.value :
            LET item == heap[result.value[i]]
            IN  /\ item.priorityScore = SpecScoreOf(item, result.at)
                /\ item.priority = SpecTierOf(item.priorityScore)

\* the worked example: weak subject, difficulty 5, due within a day,
\* struggled, never studied: 16, critical
C4_Witness ==
    /\ call = "prioritizeContent"
    /\ Len(result.value) = 1
    /\ LET item == heap[result.value[1]]
       IN  /\ item.priorityScore = 16
           /\ item.priority = "critical"
           /\ item.dueDate - result.at \in 1..(HoursPerDay - 1)

\* C5: the returned array is a permutation of the input, non-increasing in
\* priorityScore, and items of equal score keep their input order.
C5_StableDescendingPermutation ==
    (call # "none" /\ contentItems.defined /\ userData.defined) =>
        LET in == PrioritizeInput
            out == result.value
        IN  /\ Len(out) = Len(in)
            /\ Range(out) = Range(in)
            /\ \A i, j \in DOMAIN out :
                   i < j =>
                     /\ heap[out[i]].priorityScore >= heap[out[j]].priorityScore
                     /\ heap[out[i]].priorityScore = heap[out[j]].priorityScore
                          => IndexOf(in, out[i]) < IndexOf(in, out[j])

\* a call that reordered three items, two of them of equal score
C5_Witness ==
    /\ call = "prioritizeContent"
    /\ Len(result.value) = 3
    /\ result.value # contentItems.refs
    /\ \E i, j \in DOMAIN result.value :
          /\ i < j
          /\ heap[result.value[i]].priorityScore = heap[result.value[j]].priorityScore
          /\ heap[result.value[1]].priorityScore > heap[result.value[3]].priorityScore

\* C6: with the clock and userData unchanged, prioritizeContent applied to
\* its own output returns the same order, scores and tiers.
C6_Idempotent ==
    (call = "prioritizeOutput" /\ result.at = last.result.at) =>
        /\ result.value = last.result.value
        /\ \A r \in Range(result.value) :
              /\ heap[r].priorityScore = last.heap[r].priorityScore
              /\ heap[r].priority = last.heap[r].priority

\* a second call at the same clock value on an output that the first call
\* had reordered and that holds a tie
C6_Witness ==
    /\ call = "prioritizeOutput"
    /\ result.at = last.result.at
    /\ Len(result.value) >= 2
    /\ last.result.value # contentItems.refs
    /\ \E i, j \in DOMAIN result.value :
          i < j /\ heap[result.value[i]].priorityScore = heap[result.value[j]].priorityScore

----------------------------------------------------------------------------
(* groupContentIntoSessions *)

DefaultSessionDuration == 25

\* sessionDuration = 25 when the argument is not passed
SessionDurationOf(o) ==
    IF o.sessionDuration = Undefined THEN DefaultSessionDuration ELSE o.sessionDuration

\* item.estimatedDuration || 10
ItemDuration(item) == OrDefault(item.estimatedDuration, 10)

GetPriorityValue(priority) ==
    CASE priority = "critical" -> 4
      [] priority = "high" -> 3
      [] priority = "medium" -> 2
      [] priority = "low" -> 1
      [] OTHER -> 0

\* items.reduce((highest, item) => value(item) > value(highest) ? item : highest,
\*              { priority: 'low' }).priority
RECURSIVE HighestPriority(_, _, _)
HighestPriority(h, items, highest) ==
    IF items = <<>> THEN highest
    ELSE LET p == h[Head(items)].priority
         IN  HighestPriority(h, Tail(items),
                             IF GetPriorityValue(p) > GetPriorityValue(highest)
                             THEN p ELSE highest)

EmptySession == [items |-> <<>>, estimatedDuration |-> 0, priority |-> "medium"]

CloseSession(h, session) ==
    [session EXCEPT !.priority = HighestPriority(h, session.items, "low")]

\* a grouper that tests the running total before adding the item to it
GroupStepLateCheck(h, st, ref, target) ==
    LET itemDuration == ItemDuration(h[ref])
        closing == /\ st.current.estimatedDuration > target
                   /\ Len(st.current.items) > 0
        sessions == IF closing THEN Append(st.sessions, CloseSession(h, st.current))
                    ELSE st.sessions
        current == IF closing THEN EmptySession ELSE st.current
    IN  [sessions |-> sessions,
         current |-> [current EXCEPT !.items = Append(@, ref),
                                     !.estimatedDuration = @ + itemDuration]]

\* the forEach body: st = [sessions, current]
GroupStep(h, st, ref, target) ==
    LET itemDuration == ItemDuration(h[ref])
        closing == /\ st.current.estimatedDuration + itemDuration > target
                   /\ Len(st.current.items) > 0
        sessions == IF closing THEN Append(st.sessions, CloseSession(h, st.current))
                    ELSE st.sessions
        current == IF closing THEN EmptySession ELSE st.current
    IN  [sessions |-> sessions,
         current |-> [current EXCEPT !.items = Append(@, ref),
                                     !.estimatedDuration = @ + itemDuration]]

RECURSIVE GroupLoop(_, _, _, _)
GroupLoop(h, st, refs, target) ==
    IF refs = <<>> THEN st
    ELSE GroupLoop(h, GroupStep(h, st, Head(refs), target), Tail(refs), target)

GroupSessions(h, array, target) ==
    IF ~array.defined \/ Len(array.refs) = 0 THEN <<>>
    ELSE LET st == GroupLoop(h, [sessions |-> <<>>, current |-> EmptySession],
                             array.refs, target)
         IN  IF Len(st.current.items) > 0
             THEN Append(st.sessions, CloseSession(h, st.current))
             ELSE st.sessions

GroupContentIntoSessions ==
    /\ call = "none"
    /\ result' = [status |-> "ok",
                  value |-> GroupSessions(heap, contentItems, SessionDurationOf(opts)),
                  at |-> now]
    /\ last' = [result |-> result, heap |-> heap]
    /\ call' = "groupContentIntoSessions"
    /\ UNCHANGED <<now, heap, contentItems, userData, opts>>

GroupDurations == {Undefined, 5, 15, 30}
GroupPriorities == {"high", "optional"}
GroupTargets == {Undefined, 10, 20}

GroupProfiles ==
    { [NewItem(1, "calculus", 3) EXCEPT !.estimatedDuration = d, !.priority = p] :
        d \in GroupDurations, p \in GroupPriorities }

InitGroup ==
    /\ now = StartNow
    /\ \E n \in 1..MaxGroupItems : /\ heap \in Heaps(GroupProfiles, n)
                                  /\ contentItems = Array(Iota(n))
    /\ userData = NoUserData
    /\ opts \in [engine : {"timsort"}, sessionDuration : GroupTargets]
    /\ result = NoResult
    /\ last = NoLast
    /\ call = "none"

SpecGroup == InitGroup /\ [][GroupContentIntoSessions]_vars

\* duration of an item as the specification counts it
SpecDuration(item) ==
    IF item.estimatedDuration = Undefined THEN 10 ELSE item.estimatedDuration

RECURSIVE SpecTotalDuration(_)
SpecTotalDuration(items) ==
    IF items = <<>> THEN 0
    ELSE SpecDuration(heap[Head(items)]) + SpecTotalDuration(Tail(items))

\* C3: every session has estimatedDuration (the sum of its items' durations)
\* <= target, except a session of exactly one item longer than the target.
C3_SessionWithinTarget ==
    call = "groupContentIntoSessions" =>
        \A k \in DOMAIN result.value :
            LET session == result.value[k]
                target == SessionDurationOf(opts)
            IN  /\ session.estimatedDuration = SpecTotalDuration(session.items)
                /\ \/ session.estimatedDuration <= target
                   \/ /\ Len(session.items) = 1
                      /\ SpecDuration(heap[session.items[1]]) > target

\* a grouping with one session filled exactly to the target by two items and
\* another made of a single item longer than the target
C3_Witness ==
    /\ call = "groupContentIntoSessions"
    /\ \E k \in DOMAIN result.value :
          /\ Len(result.value[k].items) = 2
          /\ result.value[k].estimatedDuration = SessionDurationOf(opts)
    /\ \E k \in DOMAIN result.value :
          /\ Len(result.value[k].items) = 1
          /\ result.value[k].estimatedDuration > SessionDurationOf(opts)

----------------------------------------------------------------------------
(* recommendContentSequence *)

\* item.subject || 'general'; the empty string stands for an absent subject
SubjectKey(item) == IF item.subject = "" THEN "general" ELSE item.subject

\* Object.keys(bySubject): the subjects in the order they were first met
RECURSIVE SubjectOrder(_, _, _)
SubjectOrder(h, refs, seen) ==
    IF refs = <<>> THEN seen
    ELSE LET subject == SubjectKey(h[Head(refs)])
         IN  SubjectOrder(h, Tail(refs),
                          IF subject \in Range(seen) THEN seen ELSE Append(seen, subject))

\* bySubject[subject] after the reduce: the subject's items in input order
SubjectGroup(h, refs, subject) ==
    SelectSeq(refs, LAMBDA r : SubjectKey(h[r]) = subject)

\* bySubject[subject] after the sort
SortedGroup(engine, h, refs, subject) ==
    ArraySort(engine, "sequence", h, {}, SubjectGroup(h, refs, subject))

\* one pass of subjects.forEach at `index` (counted from 1)
RECURSIVE InterleaveRound(_, _, _)
InterleaveRound(groups, subjects, index) ==
    IF subjects = <<>> THEN <<>>
    ELSE (IF index <= Len(groups[Head(subjects)])
          THEN <<groups[Head(subjects)][index]>> ELSE <<>>)
         \o InterleaveRound(groups, Tail(subjects), index)

\* an interleaving that emits two items of a subject in each pass
RECURSIVE PairRound(_, _, _)
PairRound(groups, subjects, index) ==
    IF subjects = <<>> THEN <<>>
    ELSE SubSeq(groups[Head(subjects)], index, Min(index + 1, Len(groups[Head(subjects)])))
         \o PairRound(groups, Tail(subjects), index)

RECURSIVE InterleaveByPairs(_, _, _)
InterleaveByPairs(groups, subjects, index) ==
    LET round == PairRound(groups, subjects, index)
    IN  IF round = <<>> THEN <<>>
        ELSE round \o InterleaveByPairs(groups, subjects, index + 2)

\* the while (hasMore) loop from `index` on
RECURSIVE Interleave(_, _, _)
Interleave(groups, subjects, index) ==
    LET round == InterleaveRound(groups, subjects, index)
    IN  IF round = <<>> THEN <<>>
        ELSE round \o Interleave(groups, subjects, index + 1)

SequenceOf(engine, h, array) ==
    IF ~array.defined \/ Len(array.refs) = 0 THEN <<>>
    ELSE LET subjects == SubjectOrder(h, array.refs, <<>>)
             groups == [subject \in Range(subjects) |->
                          SortedGroup(engine, h, array.refs, subject)]
         IN  Interleave(groups, subjects, 1)

RecommendContentSequence ==
    /\ call = "none"
    /\ result' = [status |-> "ok",
                  value |-> SequenceOf(opts.engine, heap, contentItems),
                  at |-> now]
    /\ last' = [result |-> result, heap |-> heap]
    /\ call' = "recommendContentSequence"
    /\ UNCHANGED <<now, heap, contentItems, userData, opts>>

\* arrays of n items over the given subjects and difficulties in which at
\* most one item has a dependency, on one other item
SequenceHeaps(subjects, difficulties, n) ==
    { [i \in 1..n |->
         [NewItem(i, f[i][1], f[i][2]) EXCEPT
            !.dependsOn = IF i = e[1] /\ e[1] # e[2] THEN {e[2]} ELSE {}]] :
        f \in [1..n -> subjects \X difficulties],
        e \in {<<a, b>> \in (1..n) \X (1..n) : a # b \/ a = 1} }

InitSequence(subjects, difficulties, lens) ==
    /\ now = StartNow
    /\ \E n \in lens : /\ heap \in SequenceHeaps(subjects, difficulties, n)
                      /\ contentItems = Array(Iota(n))
    /\ userData = NoUserData
    /\ opts \in [engine : Engines]
    /\ result = NoResult
    /\ last = NoLast
    /\ call = "none"

\* interleaving: three subjects (one of them absent), two difficulties
InitInterleave == InitSequence({"calculus", "physics", ""}, {1, 2}, 1..MaxInterleaveItems)
SpecInterleave == InitInterleave /\ [][RecommendContentSequence]_vars

\* dependency ordering: two subjects, three difficulties
InitSeq == InitSequence({"calculus", "physics"}, {1, 2, 3}, 1..MaxSeqItems)
SpecSeq == InitSeq /\ [][RecommendContentSequence]_vars

----------------------------------------------------------------------------
(* Properties of recommendContentSequence *)

\* the input items not yet emitted before position p of the output
LeftToEmit(p) ==
    Range(contentItems.refs) \ {result.value[q] : q \in 1..(p - 1)}

\* C7: two adjacent output items have the same subject only if, at the
\* position of the second, no other subject has an item left to emit.
C7_NoAdjacentSameSubject ==
    call = "recommendContentSequence" =>
        \A p \in 1..(Len(result.value) - 1) :
            LET first == heap[result.value[p]]
                second == heap[result.value[p + 1]]
            IN  SubjectKey(first) = SubjectKey(second) =>
                    \A r \in LeftToEmit(p + 1) : SubjectKey(heap[r]) = SubjectKey(second)

\* four items of two subjects, interleaved, ending with two adjacent items of
\* the subject that alone has items left
C7_Witness ==
    /\ call = "recommendContentSequence"
    /\ Len(result.value) = 4
    /\ SubjectKey(heap[result.value[1]]) # SubjectKey(heap[result.value[2]])
    /\ SubjectKey(heap[result.value[1]]) = SubjectKey(heap[result.value[3]])
    /\ SubjectKey(heap[result.value[3]]) = SubjectKey(heap[result.value[4]])
    /\ result.value # contentItems.refs

\* C8: if A and B have the same subject, A.dependsOn contains B.id and B does
\* not depend on A, then A comes after B in the output.
C8_DependencyAfter ==
    call = "recommendContentSequence" =>
        \A a, b \in Range(contentItems.refs) :
            ( /\ SubjectKey(heap[a]) = SubjectKey(heap[b])
              /\ heap[b].id \in heap[a].dependsOn
              /\ heap[a].id \notin heap[b].dependsOn )
            => IndexOf(result.value, a) > IndexOf(result.value, b)

----------------------------------------------------------------------------
(* generateBalancedStudyMix *)

MaxMixItems == 10

\* Math.round(total * (percentage / 100)); halves round up
RoundShare(total, percentage) == (total * percentage + 50) \div 100

\* weak / strong / new percentages
MixPercentages(perf) ==
    IF ~perf.defined THEN <<60, 20, 20>>
    ELSE LET avgScore == OrDefault(perf.averageScore, 70)
         IN  IF avgScore < 60 THEN <<70, 15, 15>>
             ELSE IF avgScore > 85 THEN <<40, 20, 40>>
             ELSE <<60, 20, 20>>

\* totalItems = Math.min(contentItems.length, 10)
MixTotal(n) == Min(n, MaxMixItems)

\* selected.map(item => ({...item, category}))
Tagged(h, refs, category) ==
    [i \in 1..Len(refs) |-> h[refs[i]] @@ [category |-> category]]

StudyMix(h, array, perf) ==
    IF ~array.defined \/ Len(array.refs) = 0 THEN <<>>
    ELSE LET pct == MixPercentages(perf)
             weakAreas == IF perf.defined THEN perf.weakAreas ELSE {}
             strongAreas == IF perf.defined THEN perf.strongAreas ELSE {}
             weakAreaItems == SelectSeq(array.refs, LAMBDA r : h[r].subject \in weakAreas)
             strongAreaItems == SelectSeq(array.refs, LAMBDA r : h[r].subject \in strongAreas)
             newContentItems ==
                 SelectSeq(array.refs, LAMBDA r : /\ h[r].subject \notin weakAreas
                                                  /\ h[r].subject \notin strongAreas)
             totalItems == MixTotal(Len(array.refs))
             weakCount == RoundShare(totalItems, pct[1])
             strongCount == RoundShare(totalItems, pct[2])
             newCount == RoundShare(totalItems, pct[3])
                         + (IF Len(weakAreaItems) < weakCount
                            THEN weakCount - Len(weakAreaItems) ELSE 0)
                         + (IF Len(strongAreaItems) < strongCount
                            THEN strongCount - Len(strongAreaItems) ELSE 0)
             selectedWeak == SubSeq(weakAreaItems, 1, Min(weakCount, Len(weakAreaItems)))
             selectedStrong ==
                 SubSeq(strongAreaItems, 1, Min(strongCount, Len(strongAreaItems)))
             selectedNew == SubSeq(newContentItems, 1, Min(newCount, Len(newContentItems)))
         IN  Tagged(h, selectedWeak, "weak-area")
             \o Tagged(h, selectedStrong, "strong-area")
             \o Tagged(h, selectedNew, "new-content")

GenerateBalancedStudyMix ==
    /\ call = "none"
    /\ result' = [status |-> "ok",
                  value |-> StudyMix(heap, contentItems, userData.performance),
                  at |-> now]
    /\ last' = [result |-> result, heap |-> heap]
    /\ call' = "generateBalancedStudyMix"
    /\ UNCHANGED <<now, heap, contentItems, userData, opts>>

\* the subject of item i of a list with the given number of items per subject
MixSubject(i, nCalculus, nPhysics, nChemistry) ==
    IF i <= nCalculus THEN "calculus"
    ELSE IF i <= nCalculus + nPhysics THEN "physics"
    ELSE IF i <= nCalculus + nPhysics + nChemistry THEN "chemistry"
    ELSE "history"

MixHeap(nCalculus, nPhysics, nChemistry, nHistory) ==
    [i \in 1..(nCalculus + nPhysics + nChemistry + nHistory) |->
        NewItem(i, MixSubject(i, nCalculus, nPhysics, nChemistry), 3)]

MixScores == {Undefined, 0, 50, 59, 60, 70, 85, 86, 100}

\* calculus is weak, physics strong, history neither; chemistry is neither
\* or is listed in both
MixPerformances ==
    {NoPerformance}
    \cup { Performance(avg, weak, strong) :
             avg \in MixScores,
             weak \in {{"calculus"}, {"calculus", "chemistry"}},
             strong \in {{"physics"}, {"physics", "chemistry"}} }

InitMix ==
    /\ now = StartNow
    /\ \E nc, np, nch, nh \in 0..MaxPerSubject :
          /\ heap = MixHeap(nc, np, nch, nh)
          /\ \E reversed \in BOOLEAN :
                contentItems = Array(IF reversed THEN Reverse(Iota(Len(heap)))
                                     ELSE Iota(Len(heap)))
    /\ \E perf \in MixPerformances : userData = UserData(perf)
    /\ opts = NoOpts
    /\ result = NoResult
    /\ last = NoLast
    /\ call = "none"

SpecMix == InitMix /\ [][GenerateBalancedStudyMix]_vars

\* C1: generateBalancedStudyMix returns at most 10 items.
C1_AtMostTen ==
    call = "generateBalancedStudyMix" => Len(result.value) <= 10

----------------------------------------------------------------------------
(* generateAdaptiveSchedule *)

DefaultDaysToSchedule == 7

\* daysToSchedule = 7 when the argument is not passed
DaysToScheduleOf(o) ==
    IF o.daysToSchedule = Undefined THEN DefaultDaysToSchedule ELSE o.daysToSchedule

\* startDate = new Date() when the argument is not passed
StartDateOf(o, t) == IF o.startDate = Undefined THEN t ELSE o.startDate

\* habits?.preferredStudyTime || {} as the sequence of its entries
PreferredTimeOf(ud) ==
    IF ud.habits.defined THEN ud.habits.preferredStudyTime ELSE <<>>

\* the forEach over Object.entries(preferredTime): <<bestPeriod, highestScore>>
RECURSIVE BestPeriod(_, _, _)
BestPeriod(entries, bestPeriod, highestScore) ==
    IF entries = <<>> THEN bestPeriod
    ELSE IF Head(entries)[2] > highestScore
         THEN BestPeriod(Tail(entries), Head(entries)[1], Head(entries)[2])
         ELSE BestPeriod(Tail(entries), bestPeriod, highestScore)

\* defaultHours[bestPeriod]; <<>> stands for undefined
StudyHours(period) ==
    CASE period = "morning" -> <<9, 11>>
      [] period = "afternoon" -> <<14, 16>>
      [] period = "evening" -> <<19, 21>>
      [] OTHER -> <<>>

GetBestStudyHours(ud) == StudyHours(BestPeriod(PreferredTimeOf(ud), "evening", 0))

\* ceil(a / b) for a >= 0, b > 0
CeilDiv(a, b) == (a + b - 1) \div b

\* habits?.consistencyScore || 0.5, in tenths
ConsistencyTenths(ud) ==
    IF ud.habits.defined THEN OrDefault(ud.habits.consistencyScore, 5) ELSE 5

\* an item count without the upper limit of 3
ItemsPerDayUnclamped(length, days, tenths) ==
    IF days * tenths = 0 THEN 3
    ELSE Max(1, CeilDiv(10 * length, days * tenths))

\* Math.max(1, Math.min(3, Math.ceil(length / (daysToSchedule * consistencyScore))));
\* the quotient is Infinity when daysToSchedule is 0
ItemsPerDay(length, days, tenths) ==
    IF days * tenths = 0 THEN 3
    ELSE Max(1, Min(3, CeilDiv(10 * length, days * tenths)))

\* the inner loop: itemsPerDay items from startIndex on, cyclically
DayItems(sorted, day, itemsPerDay) ==
    [i \in 1..itemsPerDay |->
        LET startIndex == (day * itemsPerDay) % Len(sorted)
            indexToAdd == (startIndex + (i - 1)) % Len(sorted)
        IN  sorted[indexToAdd + 1]]

\* Math.round(base * (1 + (avgDifficulty - 3) * 0.1) * (1 + (70 - averageScore) * 0.005))
\* = round(base * (7n + sum) * (270 - averageScore) / (2000 n)), in exact
\* arithmetic, halves rounded up
AdjustedDuration(h, items, base, averageScore) ==
    LET n == Len(items)
        sum == SumSeq([i \in 1..n |-> h[items[i]].difficulty])
        numerator == base * (7 * n + sum) * (270 - averageScore)
        denominator == 2000 * n
    IN  (2 * numerator + denominator) \div (2 * denominator)

\* sessionDate.setHours(startHour, 0, 0, 0)
SetHours(date, hour) == (date \div HoursPerDay) * HoursPerDay + hour

\* the sessions of days day .. days-1
RECURSIVE ScheduleDays(_, _, _, _, _, _)
ScheduleDays(h, ud, sorted, currentDate, day, days) ==
    IF day >= days THEN <<>>
    ELSE LET itemsPerDay == ItemsPerDay(Len(sorted), days, ConsistencyTenths(ud))
             dayItems == DayItems(sorted, day, itemsPerDay)
             averageScore == IF ud.performance.defined
                             THEN OrDefault(ud.performance.averageScore, 70) ELSE 70
             base == IF ud.preferences.defined
                     THEN OrDefault(ud.preferences.studyDuration, 25) ELSE 25
             break == IF ud.preferences.defined
                      THEN OrDefault(ud.preferences.breakDuration, 5) ELSE 5
         IN  << [date |-> SetHours(currentDate, GetBestStudyHours(ud)[1]),
                 items |-> dayItems,
                 duration |-> AdjustedDuration(h, dayItems, base, averageScore),
                 breakDuration |-> break,
                 completed |-> FALSE] >>
             \o ScheduleDays(h, ud, sorted, currentDate + HoursPerDay, day + 1, days)

\* a scheduler that destructures userData before testing it
AdaptiveScheduleUnguarded(engine, h, ud, array, startDate, days) ==
    IF ~ud.defined
    THEN [status |-> "TypeError", value |-> <<>>]
    ELSE IF ~array.defined \/ Len(array.refs) = 0
    THEN [status |-> "ok", value |-> <<>>]
    ELSE LET sorted == ArraySort(engine, "schedule", h, WeakAreasOf(ud), array.refs)
         IN  IF days > 0 /\ GetBestStudyHours(ud) = <<>>
             THEN [status |-> "TypeError", value |-> <<>>]
             ELSE [status |-> "ok",
                   value |-> ScheduleDays(h, ud, sorted, startDate, 0, days)]

\* the value generateAdaptiveSchedule returns, or the TypeError it throws when
\* it destructures the undefined hours of an unknown period
AdaptiveSchedule(engine, h, ud, array, startDate, days) ==
    IF ~ud.defined \/ ~array.defined \/ Len(array.refs) = 0
    THEN [status |-> "ok", value |-> <<>>]
    ELSE LET sorted == ArraySort(engine, "schedule", h, WeakAreasOf(ud), array.refs)
         IN  IF days > 0 /\ GetBestStudyHours(ud) = <<>>
             THEN [status |-> "TypeError", value |-> <<>>]
             ELSE [status |-> "ok",
                   value |-> ScheduleDays(h, ud, sorted, startDate, 0, days)]

GenerateAdaptiveSchedule ==
    /\ call = "none"
    /\ result' = AdaptiveSchedule(opts.engine, heap, userData, contentItems,
                                  StartDateOf(opts, now), DaysToScheduleOf(opts))
                  @@ [at |-> now]
    /\ last' = [result |-> result, heap |-> heap]
    /\ call' = "generateAdaptiveSchedule"
    /\ UNCHANGED <<now, heap, contentItems, userData, opts>>

\* preferredStudyTime mappings, scores in tenths: the mock user's, one per
\* winning period, one without any positive score
PreferredStudyTimes ==
    { << <<"morning", 7>>, <<"afternoon", 3>>, <<"evening", 9>>, <<"night", 2>> >>,
      << <<"morning", 9>>, <<"evening", 9>> >>,
      << <<"morning", 3>>, <<"afternoon", 8>> >>,
      << <<"morning", 7>>, <<"afternoon", 3>>, <<"evening", 6>>, <<"night", 9>> >>,
      << <<"morning", 0>>, <<"night", 0>> >> }

SchedHabits ==
    {NoHabits}
    \cup { [defined |-> TRUE, preferredStudyTime |-> p, consistencyScore |-> c] :
             p \in PreferredStudyTimes, c \in {Undefined, 0, 1, 5, 10} }

SchedPerformances ==
    {NoPerformance} \cup { Performance(avg, {"calculus"}, {"physics"}) : avg \in {Undefined, 50, 90} }

SchedPreferences ==
    { NoPreferences, [defined |-> TRUE, studyDuration |-> 30, breakDuration |-> Undefined] }

SchedUserDatas ==
    { [defined |-> TRUE, performance |-> perf, habits |-> hab, preferences |-> pref] :
        perf \in SchedPerformances, hab \in SchedHabits, pref \in SchedPreferences }

SchedProfiles == { NewItem(1, s, d) : s \in {"calculus", "history"}, d \in {2, 4} }

InitSched ==
    /\ now = StartNow
    /\ \E n \in 1..MaxSchedItems : /\ heap \in Heaps(SchedProfiles, n)
                                  /\ contentItems = Array(Iota(n))
    /\ userData \in SchedUserDatas
    /\ opts \in [engine : {"timsort"}, startDate : {Undefined, StartNow + 50},
                  daysToSchedule : {Undefined} \cup 1..MaxDays]
    /\ result = NoResult
    /\ last = NoLast
    /\ call = "none"

SpecSched == InitSched /\ [][GenerateAdaptiveSchedule]_vars

\* C2: for every userData and every non-empty content list the schedule has
\* exactly daysToSchedule sessions.
C2_ScheduleLength ==
    (call = "generateAdaptiveSchedule" /\ Len(contentItems.refs) > 0) =>
        /\ result.status = "ok"
        /\ Len(result.value) = DaysToScheduleOf(opts)

----------------------------------------------------------------------------
(* adjustScheduleBasedOnPerformance *)

\* a search that also accepts a session dated exactly now
NextSessionIndexInclusive(sessions, t) ==
    IF \E i \in DOMAIN sessions : sessions[i].date >= t
    THEN CHOOSE i \in DOMAIN sessions :
            /\ sessions[i].date >= t
            /\ \A j \in 1..(i - 1) : ~(sessions[j].date >= t)
    ELSE 0

\* updatedSchedule.findIndex(session => new Date(session.date) > now),
\* counted from 1; 0 when there is none
NextSessionIndex(sessions, t) ==
    IF \E i \in DOMAIN sessions : sessions[i].date > t
    THEN CHOOSE i \in DOMAIN sessions :
            /\ sessions[i].date > t
            /\ \A j \in 1..(i - 1) : ~(sessions[j].date > t)
    ELSE 0

\* struggledItems || []
ReinforcementNeeded(feedback) ==
    IF feedback.struggledItems.defined THEN feedback.struggledItems.refs ELSE <<>>

\* the first adjustment: reinforcement items go into the next session
Reinforce(sessions, feedback, t) ==
    LET reinforcementNeeded == ReinforcementNeeded(feedback)
        nextSessionIndex == NextSessionIndex(sessions, t)
    IN  IF Len(reinforcementNeeded) > 0 /\ Len(sessions) > 0 /\ nextSessionIndex # 0
        THEN [sessions EXCEPT ![nextSessionIndex] =
                [@ EXCEPT !.items = SubSeq(reinforcementNeeded, 1,
                                           Min(2, Len(reinforcementNeeded))) \o @,
                          !.duration = @ + 10]]
        ELSE sessions

\* a reduction that does not spare the session at index 0
ReduceAllDurations(sessions, feedback) ==
    IF Truthy(feedback.averageScore) /\ feedback.averageScore > 85
    THEN [i \in DOMAIN sessions |->
            [sessions[i] EXCEPT !.duration = Max(15, @ - 5)]]
    ELSE sessions

\* the second adjustment: shorter sessions after a good score
ReduceDurations(sessions, feedback) ==
    IF Truthy(feedback.averageScore) /\ feedback.averageScore > 85
    THEN [i \in DOMAIN sessions |->
            IF i - 1 > 0
            THEN [sessions[i] EXCEPT !.duration = Max(15, @ - 5)]
            ELSE sessions[i]]
    ELSE sessions

\* the returned schedule; status "undefined" when the absent schedule is
\* handed back
AdjustedSchedule(schedule, feedback, t) ==
    IF ~schedule.defined THEN [status |-> "undefined", value |-> <<>>]
    ELSE IF ~feedback.defined THEN [status |-> "ok", value |-> schedule.sessions]
    ELSE [status |-> "ok",
          value |-> ReduceDurations(Reinforce(schedule.sessions, feedback, t), feedback)]

AdjustScheduleBasedOnPerformance ==
    /\ call = "none"
    /\ result' = AdjustedSchedule(opts.schedule, opts.feedback, now) @@ [at |-> now]
    /\ last' = [result |-> result, heap |-> heap]
    /\ call' = "adjustScheduleBasedOnPerformance"
    /\ UNCHANGED <<now, heap, contentItems, userData, opts>>

\* session dates: yesterday, exactly now, tomorrow, in any order
AdjustDates == {StartNow - HoursPerDay, StartNow, StartNow + HoursPerDay}
AdjustDurations == {10, 17, 25}
AdjustScores == {Undefined, 0, 85, 86, 90}

NoArray == [defined |-> FALSE, refs |-> <<>>]

AdjustStruggled == {NoArray, Array(<<>>), Array(<<3>>), Array(<<3, 1>>), Array(<<3, 1, 2>>)}

AdjustFeedbacks ==
    { [defined |-> FALSE, struggledItems |-> NoArray, averageScore |-> Undefined] }
    \cup { [defined |-> TRUE, struggledItems |-> si, averageScore |-> avg] :
             si \in AdjustStruggled, avg \in AdjustScores }

\* schedules of n sessions; session k holds one of the three content items
AdjustSchedules(n) ==
    { [k \in 1..n |-> [date |-> f[k][1],
                       items |-> << ((k - 1) % 3) + 1 >>,
                       duration |-> f[k][2],
                       breakDuration |-> 5,
                       completed |-> FALSE]] :
        f \in [1..n -> AdjustDates \X AdjustDurations] }

InitAdjust ==
    /\ now = StartNow
    /\ heap = [i \in 1..3 |-> NewItem(i, "calculus", 3)]
    /\ contentItems = Array(Iota(3))
    /\ userData = NoUserData
    /\ \E n \in 0..MaxSessions, defined \in BOOLEAN :
          \E sessions \in AdjustSchedules(n), feedback \in AdjustFeedbacks :
             /\ defined \/ n = 0
             /\ opts = [engine |-> "timsort",
                        schedule |-> [defined |-> defined, sessions |-> sessions],
                        feedback |-> feedback]
    /\ result = NoResult
    /\ last = NoLast
    /\ call = "none"

SpecAdjust == InitAdjust /\ [][AdjustScheduleBasedOnPerformance]_vars

----------------------------------------------------------------------------
(* Properties of adjustScheduleBasedOnPerformance *)

AdjustInput == opts.schedule.sessions

NoStruggledItems ==
    \/ ~opts.feedback.struggledItems.defined
    \/ Len(opts.feedback.struggledItems.refs) = 0

\* session `after` is session `before` except perhaps for the named field
SameExceptDuration(before, after) == [after EXCEPT !.duration = before.duration] = before

SpecNextSession ==
    IF \A i \in DOMAIN AdjustInput : AdjustInput[i].date <= now THEN 0
    ELSE CHOOSE i \in DOMAIN AdjustInput :
            /\ AdjustInput[i].date > now
            /\ \A j \in DOMAIN AdjustInput : AdjustInput[j].date > now => i <= j

FirstStruggled ==
    LET refs == opts.feedback.struggledItems.refs
    IN  IF Len(refs) <= 2 THEN refs ELSE <<refs[1], refs[2]>>

\* C10: with struggledItems non-empty and averageScore absent or <= 85, only
\* the first session dated strictly after now changes: the first min(2, n)
\* struggled items are put before its items and its duration grows by 10;
\* without a future session the schedule is unchanged.
C10_ReinforcementFrame ==
    ( /\ call = "adjustScheduleBasedOnPerformance"
      /\ opts.schedule.defined /\ opts.feedback.defined
      /\ ~NoStruggledItems
      /\ (opts.feedback.averageScore = Undefined \/ opts.feedback.averageScore <= 85) )
    => /\ Len(result.value) = Len(AdjustInput)
       /\ \A i \in DOMAIN AdjustInput :
             IF i = SpecNextSession
             THEN result.value[i] =
                    [AdjustInput[i] EXCEPT !.items = FirstStruggled \o AdjustInput[i].items,
                                           !.duration = AdjustInput[i].duration + 10]
             ELSE result.value[i] = AdjustInput[i]

\* three struggled items; the schedule has a session dated exactly now, then
\* two future sessions, of which only the first is changed
C10_Witness ==
    /\ call = "adjustScheduleBasedOnPerformance"
    /\ opts.feedback.defined
    /\ opts.feedback.averageScore = 85
    /\ opts.feedback.struggledItems = Array(<<3, 1, 2>>)
    /\ Len(AdjustInput) = 3
    /\ AdjustInput[1].date = now
    /\ AdjustInput[2].date > now
    /\ AdjustInput[3].date > now
    /\ result.value[1] = AdjustInput[1]
    /\ result.value[2].items = <<3, 1>> \o AdjustInput[2].items
    /\ result.value[2].duration = AdjustInput[2].duration + 10
    /\ result.value[3] = AdjustInput[3]

----------------------------------------------------------------------------
(* Properties of generateBalancedStudyMix *)

\* the percentages the specification gives for an average score
SpecPercentages(avg) ==
    IF avg # Undefined /\ avg < 60 THEN <<70, 15, 15>>
    ELSE IF avg # Undefined /\ avg > 85 THEN <<40, 20, 40>>
    ELSE <<60, 20, 20>>

CountCategory(mix, category) ==
    Cardinality({i \in DOMAIN mix : mix[i].category = category})

SubjectCount(subjects) ==
    Cardinality({r \in Range(contentItems.refs) : heap[r].subject \in subjects})

\* C11: the weak/strong/new percentages are 70/15/15 for every averageScore
\* below 60 (0 included), 40/20/40 above 85, and 60/20/20 otherwise; seen in
\* the mix as the number of weak-area items taken from a list of at least 10
\* items with at least 7 weak ones.
C11_Percentages ==
    ( /\ call = "generateBalancedStudyMix"
      /\ userData.performance.defined
      /\ Len(contentItems.refs) > 0 ) =>
        LET perf == userData.performance
            pct == SpecPercentages(perf.averageScore)
        IN  /\ MixPercentages(perf) = pct
            /\ (Len(contentItems.refs) >= 10 /\ SubjectCount(perf.weakAreas) >= 7)
                 => CountCategory(result.value, "weak-area") = (10 * pct[1] + 50) \div 100

\* C12: each input item appears at most once in the mix and carries exactly
\* one of the three category tags.
C12_DisjointBuckets ==
    call = "generateBalancedStudyMix" =>
        /\ \A i, j \in DOMAIN result.value :
              i # j => result.value[i].id # result.value[j].id
        /\ \A i \in DOMAIN result.value :
              result.value[i].category \in {"weak-area", "strong-area", "new-content"}

----------------------------------------------------------------------------
(* Properties of generateAdaptiveSchedule *)

\* C13: for every non-empty content list, daysToSchedule >= 1 and
\* consistencyScore (absent, 0 or in (0,1]) itemsPerDay is in [1,3], so every
\* session of the schedule holds between 1 and 3 items.
C13_ItemsPerDayRange ==
    ( /\ call = "generateAdaptiveSchedule"
      /\ Len(contentItems.refs) > 0
      /\ DaysToScheduleOf(opts) >= 1 ) =>
        /\ ItemsPerDay(Len(contentItems.refs), DaysToScheduleOf(opts),
                       ConsistencyTenths(userData)) \in 1..3
        /\ \A k \in DOMAIN result.value : Len(result.value[k].items) \in 1..3

\* three items scheduled on one day at consistency 0.1: the quotient 30 is
\* cut to 3 items
C13_Witness ==
    /\ call = "generateAdaptiveSchedule"
    /\ result.status = "ok"
    /\ Len(contentItems.refs) = 3
    /\ userData.habits.defined
    /\ userData.habits.consistencyScore = 1
    /\ opts.daysToSchedule = 1
    /\ Len(result.value) = 1
    /\ Len(result.value[1].items) = 3

\* C19: for a list of distinct items no session holds the same item more than
\* once, whatever the item count, daysToSchedule and consistencyScore.
C19_NoRepeatedItem ==
    call = "generateAdaptiveSchedule" =>
        \A k \in DOMAIN result.value :
            \A i, j \in DOMAIN result.value[k].items :
                i # j => result.value[k].items[i] # result.value[k].items[j]

----------------------------------------------------------------------------
(* Calls with missing or empty arguments *)

MissingFeedbacks ==
    { [defined |-> FALSE, struggledItems |-> NoArray, averageScore |-> Undefined],
      [defined |-> TRUE, struggledItems |-> NoArray, averageScore |-> 90],
      [defined |-> TRUE, struggledItems |-> Array(<<3>>), averageScore |-> Undefined] }

MissingSchedules ==
    { [defined |-> FALSE, sessions |-> <<>>] }
    \cup { [defined |-> TRUE, sessions |-> sessions] :
             sessions \in AdjustSchedules(0) \cup AdjustSchedules(1) }

MissingUserDatas ==
    { NoUserData, UserData(NoPerformance),
      UserData(Performance(75, {"calculus"}, {"physics"})) }

InitMissing ==
    /\ now = StartNow
    /\ heap = [i \in 1..3 |-> NewItem(i, IF i = 2 THEN "physics" ELSE "calculus", i + 1)]
    /\ contentItems \in {NoArray, Array(<<>>), Array(<<1>>), Array(<<1, 2>>)}
    /\ userData \in MissingUserDatas
    /\ opts \in [engine : Engines, sessionDuration : {Undefined, 10},
                 startDate : {Undefined}, daysToSchedule : {Undefined, 2},
                 schedule : MissingSchedules, feedback : MissingFeedbacks]
    /\ result = NoResult
    /\ last = NoLast
    /\ call = "none"

NextMissing ==
    \/ PrioritizeContent
    \/ GroupContentIntoSessions
    \/ RecommendContentSequence
    \/ GenerateBalancedStudyMix
    \/ GenerateAdaptiveSchedule
    \/ AdjustScheduleBasedOnPerformance

SpecMissing == InitMissing /\ [][NextMissing]_vars

MissingList == ~contentItems.defined \/ Len(contentItems.refs) = 0

ReturnsEmptyList == result.status = "ok" /\ result.value = <<>>

\* C14: with the item list absent or empty (or userData absent where it is
\* required) the five list functions return an empty list, and
\* adjustScheduleBasedOnPerformance returns its schedule argument unchanged
\* when the schedule or the feedback is absent; no call fails.
C14_MissingInputDefined ==
    /\ (call \in {"prioritizeContent", "generateAdaptiveSchedule"}
          /\ (MissingList \/ ~userData.defined)) => ReturnsEmptyList
    /\ (call \in {"groupContentIntoSessions", "recommendContentSequence",
                  "generateBalancedStudyMix"} /\ MissingList) => ReturnsEmptyList
    /\ (call = "adjustScheduleBasedOnPerformance"
          /\ (~opts.schedule.defined \/ ~opts.feedback.defined)) =>
             IF opts.schedule.defined
             THEN result.status = "ok" /\ result.value = opts.schedule.sessions
             ELSE result.status = "undefined"
    /\ (call # "none" /\ MissingList) => heap = last.heap

\* generateAdaptiveSchedule called with two items and no userData
C14_Witness ==
    /\ call = "generateAdaptiveSchedule"
    /\ ~userData.defined
    /\ Len(contentItems.refs) = 2
    /\ ReturnsEmptyList

----------------------------------------------------------------------------
(* Further properties *)

\* rank of a tier under critical > high > medium > low > optional
SpecRank(priority) ==
    CASE priority = "critical" -> 4
      [] priority = "high" -> 3
      [] priority = "medium" -> 2
      [] priority = "low" -> 1
      [] priority = "optional" -> 0

\* C15: every session's priority is the priority of its highest-ranked item,
\* also when all its items are 'optional'.
C15_SessionPriority ==
    call = "groupContentIntoSessions" =>
        \A k \in DOMAIN result.value :
            LET session == result.value[k]
            IN  /\ \E i \in DOMAIN session.items :
                      heap[session.items[i]].priority = session.priority
                /\ \A i \in DOMAIN session.items :
                      SpecRank(heap[session.items[i]].priority) <= SpecRank(session.priority)

\* C16: with averageScore > 85 the session spared from the 5-minute reduction
\* is the first session dated strictly after now.
C16_NextSessionExempt ==
    ( /\ call = "adjustScheduleBasedOnPerformance"
      /\ opts.schedule.defined /\ opts.feedback.defined
      /\ opts.feedback.averageScore > 85
      /\ SpecNextSession # 0 )
    => result.value[SpecNextSession].duration =
          AdjustInput[SpecNextSession].duration
          + (IF NoStruggledItems THEN 0 ELSE 10)

\* C17: for difficulties 1..5 every priorityScore lies in [3,16] and no item
\* gets the tier 'optional'.
C17_ScoreRange ==
    call # "none" =>
        \A i \in DOMAIN result.value :
            LET item == heap[result.value[i]]
            IN  item.difficulty \in 1..5 =>
                  /\ item.priorityScore >= 3
                  /\ item.priorityScore <= 16
                  /\ item.priority # "optional"

\* a strong-subject item of difficulty 1, studied before, without deadline:
\* the lowest score, 3
C17_Witness ==
    /\ call = "prioritizeContent"
    /\ Len(result.value) = 1
    /\ LET item == heap[result.value[1]]
       IN  /\ item.difficulty = 1
           /\ item.subject \in StrongAreasOf(userData)
           /\ item.subject \notin WeakAreasOf(userData)
           /\ item.priorityScore = 3
           /\ item.priority = "low"

\* C18: with averageScore > 85 and no struggledItems no returned session is
\* longer than it was in the input.
C18_NeverLonger ==
    ( /\ call = "adjustScheduleBasedOnPerformance"
      /\ opts.schedule.defined /\ opts.feedback.defined
      /\ opts.feedback.averageScore > 85
      /\ NoStruggledItems )
    => \A i \in DOMAIN result.value :
          result.value[i].duration <= AdjustInput[i].duration

====
